---- MODULE Spec2Model ----
(***************************************************************************)
(* rcdiag-api: the record-keeping backend of an automotive-service shop.   *)
(* The repository holds several server variants over the same data:        *)
(*   "hybrid"  src/unnamed/part_001:1-320    data.json + MongoDB           *)
(*   "file"    src/unnamed/part_002          data.json only                *)
(*   "api"     src/server.js:1-381           MongoDB, transactions         *)
(*   "mongo"   src/unnamed/part_001:432-665  MongoDB, no transaction       *)
(* One server runs at a time (variable variant).  A request handler is a   *)
(* sequence of atomic segments: node runs a handler without interruption   *)
(* up to its next await of a remote operation.                             *)
(***************************************************************************)
EXTENDS Integers, Sequences, FiniteSets, TLC

VARIABLES
  variant,         \* which server variant is running
  proc,            \* "boot" (module loading), "up" (listening), "crashed"
  dataFile,        \* DATA_FILE: [exists, data], data the file's tokens
  uriSet,          \* process.env.MONGODB_URI is set (the models are defined)
  connectPending,  \* mongoose.connect(...) has not settled yet
  mongoConnected,  \* let mongoConnected
  mongoError,      \* let mongoError
  db,              \* the remote store: one collection per kind
  reqs,            \* the requests in flight, by slot
  lastPut,         \* history: the Dataset of the last POST /data answered 200
  created,         \* history: initializeDataFile has created data.json in this run
  prev,            \* history: the request retired last, if a record-level one or a migration answered 200
  nops             \* history: number of requests started

vars == <<variant, proc, dataFile, uriSet, connectPending, mongoConnected,
          mongoError, db, reqs, lastPut, created, prev, nops>>

(***************************************************************************)
(* Bounds of the model.                                                    *)
(***************************************************************************)
MaxId == 1    \* identifiers are 0..MaxId (0 is the falsy identifier)
MaxOps == 2   \* requests started in one run

(***************************************************************************)
(* JS values.  A record (client, quote, invoice) has the properties id,    *)
(* name (standing for the required string fields of the schema) and notes  *)
(* (standing for the optional ones); a property may be absent.             *)
(***************************************************************************)
NoId == -1
Absent == "absent"
Kinds == {"clients", "quotes", "invoices"}
KindSeq == <<"clients", "quotes", "invoices">>
Ids == 0..MaxId
Names == {"a", "b"}
Notes == {"n"}

Rec(i, n, o) == [id |-> i, name |-> n, notes |-> o]
Records == {Rec(i, n, o) : i \in Ids \cup {NoId}, n \in Names \cup {Absent},
                           o \in Notes \cup {Absent}}

\* The value of one property of a body: an array of records, or not an array.
FieldKinds == {"arr", "absent", "null", "number", "string", "object"}
Arr(s) == [t |-> "arr", v |-> s]
NonArr(k) == [t |-> k, v |-> <<>>]
AbsentF == NonArr("absent")

\* A parsed JSON value as the handlers see it: req.body, or the parsed file.
Obj(c, q, i) == [t |-> "obj", clients |-> c, quotes |-> q, invoices |-> i]
NonObj(k) == [t |-> k, clients |-> AbsentF, quotes |-> AbsentF, invoices |-> AbsentF]
Dataset(c, q, i) == Obj(Arr(c), Arr(q), Arr(i))
EmptyDataset == Dataset(<<>>, <<>>, <<>>)
IsDataset(b) == b.t = "obj" /\ \A k \in Kinds : b[k].t = "arr"

(***************************************************************************)
(* JSON.stringify and JSON.parse on the token level: the file holds the    *)
(* tokens of the text (white space and string escapes are not modelled).   *)
(***************************************************************************)
Digits == <<"0", "1", "2", "3", "4", "5", "6", "7", "8", "9">>
Punct == {"{", "}", "[", "]", ",", ":"}
EOF == "<eof>"
NumToStr(n) == Digits[n + 1]
IsDigit(t) == \E i \in 1..Len(Digits) : Digits[i] = t
StrToNum(t) == (CHOOSE i \in 1..Len(Digits) : Digits[i] = t) - 1
IsStrTok(t) == t \notin Punct /\ ~IsDigit(t) /\ t # "null" /\ t # EOF

RECURSIVE Join(_)
Join(parts) ==
  IF Len(parts) = 0 THEN <<>>
  ELSE IF Len(parts) = 1 THEN parts[1]
  ELSE parts[1] \o <<",">> \o Join(Tail(parts))

\* JSON.stringify of a record: the properties it has, in order.
StringifyRecord(r) ==
  LET id == IF r.id = NoId THEN <<>> ELSE << <<"id", ":", NumToStr(r.id)>> >>
      nm == IF r.name = Absent THEN <<>> ELSE << <<"name", ":", r.name>> >>
      nt == IF r.notes = Absent THEN <<>> ELSE << <<"notes", ":", r.notes>> >>
  IN <<"{">> \o Join(id \o nm \o nt) \o <<"}">>

RECURSIVE StringifyItems(_)
StringifyItems(s) ==
  IF Len(s) = 0 THEN <<>>
  ELSE <<StringifyRecord(s[1])>> \o StringifyItems(Tail(s))

\* JSON.stringify of a property value; an undefined property is left out.
StringifyField(f) ==
  CASE f.t = "arr" -> <<"[">> \o Join(StringifyItems(f.v)) \o <<"]">>
    [] f.t = "null" -> <<"null">>
    [] f.t = "number" -> <<"5">>
    [] f.t = "string" -> <<"s">>
    [] f.t = "object" -> <<"{", "}">>
    [] OTHER -> <<>>

RECURSIVE StringifyMembers(_, _)
StringifyMembers(b, keys) ==
  IF Len(keys) = 0 THEN <<>>
  ELSE (IF b[keys[1]].t = "absent" THEN <<>>
        ELSE << <<keys[1], ":">> \o StringifyField(b[keys[1]]) >>)
       \o StringifyMembers(b, Tail(keys))

Stringify(b) ==
  CASE b.t = "obj" -> <<"{">> \o Join(StringifyMembers(b, KindSeq)) \o <<"}">>
    [] b.t = "arr" -> <<"[", "]">>
    [] b.t = "null" -> <<"null">>
    [] b.t = "number" -> <<"5">>
    [] OTHER -> <<"s">>

Tok(toks, i) == IF i >= 1 /\ i <= Len(toks) THEN toks[i] ELSE EOF

\* The members of a record object from position i: key ":" value, then "," or "}".
RecMemberGood(key, sep, val) ==
  /\ sep = ":"
  /\ \/ key = "id" /\ IsDigit(val)
     \/ key \in {"name", "notes"} /\ IsStrTok(val)

RecWith(acc, key, val) ==
  IF key = "id" THEN [acc EXCEPT !.id = StrToNum(val)]
  ELSE IF key = "name" THEN [acc EXCEPT !.name = val]
  ELSE [acc EXCEPT !.notes = val]

RECURSIVE ParseRecMembers(_, _, _)
RecMembersAfter(toks, i, acc, acc2, good, after) ==
  IF ~good THEN [ok |-> FALSE, val |-> acc, next |-> 0]
  ELSE IF after = "}" THEN [ok |-> TRUE, val |-> acc2, next |-> i + 4]
  ELSE IF after = "," THEN ParseRecMembers(toks, i + 4, acc2)
  ELSE [ok |-> FALSE, val |-> acc, next |-> 0]

ParseRecMembers(toks, i, acc) ==
  RecMembersAfter(toks, i, acc,
                  RecWith(acc, Tok(toks, i), Tok(toks, i + 2)),
                  RecMemberGood(Tok(toks, i), Tok(toks, i + 1), Tok(toks, i + 2)),
                  Tok(toks, i + 3))

NoRecord == Rec(NoId, Absent, Absent)

ParseRecord(toks, i) ==
  IF Tok(toks, i) # "{" THEN [ok |-> FALSE, val |-> NoRecord, next |-> 0]
  ELSE IF Tok(toks, i + 1) = "}" THEN [ok |-> TRUE, val |-> NoRecord, next |-> i + 2]
  ELSE ParseRecMembers(toks, i + 1, NoRecord)

\* The elements of an array from position i: a record, then "," or "]".
RECURSIVE ParseElements(_, _, _)
ElementsAfter(toks, r, acc) ==
  IF ~r.ok THEN [ok |-> FALSE, val |-> AbsentF, next |-> 0]
  ELSE IF Tok(toks, r.next) = "]"
    THEN [ok |-> TRUE, val |-> Arr(Append(acc, r.val)), next |-> r.next + 1]
  ELSE IF Tok(toks, r.next) = ","
    THEN ParseElements(toks, r.next + 1, Append(acc, r.val))
  ELSE [ok |-> FALSE, val |-> AbsentF, next |-> 0]

ParseElements(toks, i, acc) == ElementsAfter(toks, ParseRecord(toks, i), acc)

\* A property value that starts with the token t at position i.
FieldFrom(toks, i, t, t2) ==
  CASE t = "[" ->
         IF t2 = "]" THEN [ok |-> TRUE, val |-> Arr(<<>>), next |-> i + 2]
         ELSE ParseElements(toks, i + 1, <<>>)
    [] t = "{" ->
         IF t2 = "}" THEN [ok |-> TRUE, val |-> NonArr("object"), next |-> i + 2]
         ELSE [ok |-> FALSE, val |-> AbsentF, next |-> 0]
    [] t = "null" -> [ok |-> TRUE, val |-> NonArr("null"), next |-> i + 1]
    [] IsDigit(t) -> [ok |-> TRUE, val |-> NonArr("number"), next |-> i + 1]
    [] IsStrTok(t) -> [ok |-> TRUE, val |-> NonArr("string"), next |-> i + 1]
    [] OTHER -> [ok |-> FALSE, val |-> AbsentF, next |-> 0]

ParseField(toks, i) == FieldFrom(toks, i, Tok(toks, i), Tok(toks, i + 1))

\* The members of the top-level object from position i.
RECURSIVE ParseMembers(_, _, _)
MembersAfter(toks, key, sep, f, acc) ==
  IF ~(key \in Kinds /\ sep = ":" /\ f.ok)
    THEN [ok |-> FALSE, val |-> acc, next |-> 0]
  ELSE IF Tok(toks, f.next) = "}"
    THEN [ok |-> TRUE, val |-> [acc EXCEPT ![key] = f.val], next |-> f.next + 1]
  ELSE IF Tok(toks, f.next) = ","
    THEN ParseMembers(toks, f.next + 1, [acc EXCEPT ![key] = f.val])
  ELSE [ok |-> FALSE, val |-> acc, next |-> 0]

ParseMembers(toks, i, acc) ==
  MembersAfter(toks, Tok(toks, i), Tok(toks, i + 1), ParseField(toks, i + 2), acc)

NoMembers == Obj(AbsentF, AbsentF, AbsentF)

ValueFrom(toks, t, t2) ==
  CASE t = "{" ->
         IF t2 = "}" THEN [ok |-> TRUE, val |-> NoMembers, next |-> 3]
         ELSE ParseMembers(toks, 2, NoMembers)
    [] t = "[" ->
         IF t2 = "]" THEN [ok |-> TRUE, val |-> NonObj("arr"), next |-> 3]
         ELSE [ok |-> FALSE, val |-> NoMembers, next |-> 0]
    [] t = "null" -> [ok |-> TRUE, val |-> NonObj("null"), next |-> 2]
    [] IsDigit(t) -> [ok |-> TRUE, val |-> NonObj("number"), next |-> 2]
    [] IsStrTok(t) -> [ok |-> TRUE, val |-> NonObj("string"), next |-> 2]
    [] OTHER -> [ok |-> FALSE, val |-> NoMembers, next |-> 0]

ParseValue(toks) == ValueFrom(toks, Tok(toks, 1), Tok(toks, 2))

\* JSON.parse: the value, or a SyntaxError (a value followed by more text is one).
WholeText(toks, p) == [ok |-> p.ok /\ p.next = Len(toks) + 1, val |-> p.val]
JsonParse(toks) == WholeText(toks, ParseValue(toks))

(***************************************************************************)
(* The inputs the requests are drawn from.                                  *)
(***************************************************************************)
RecOf(i) == Rec(i, IF i = 0 THEN "a" ELSE "b", IF i = MaxId THEN "n" ELSE Absent)
RecNoId == Rec(NoId, "a", Absent)
Datasets ==
  { EmptyDataset,
    Dataset(<<RecOf(MaxId)>>, <<>>, <<>>),
    Dataset(<<RecOf(0), RecOf(MaxId)>>, <<RecOf(MaxId)>>, <<RecOf(0)>>),
    Dataset(<<RecOf(MaxId), RecOf(0)>>, <<RecOf(MaxId)>>, <<RecOf(0)>>),
    Dataset(<<RecOf(MaxId), RecOf(MaxId)>>, <<>>, <<RecOf(0)>>),
    Dataset(<<RecOf(0)>>, <<RecNoId>>, <<>>) }
InvalidBodies ==
  { Obj(AbsentF, Arr(<<>>), Arr(<<RecOf(0)>>)),
    Obj(NonArr("object"), Arr(<<>>), Arr(<<>>)),
    Obj(Arr(<<RecOf(0)>>), NonArr("string"), Arr(<<>>)),
    Obj(Arr(<<RecOf(0)>>), Arr(<<RecOf(MaxId)>>), NonArr("null")),
    Obj(Arr(<<>>), Arr(<<>>), NonArr("number")),
    Obj(AbsentF, AbsentF, AbsentF),
    NonObj("arr") }
Bodies == Datasets \cup InvalidBodies
\* The records of the record-level requests: each identifier under two
\* different contents, a record without identifier, one without its required field.
UpsertRecs ==
  {RecOf(i) : i \in Ids}
  \cup {Rec(i, IF i = 0 THEN "b" ELSE "a", IF i = MaxId THEN Absent ELSE "n") : i \in Ids}
  \cup {RecNoId, Rec(MaxId, Absent, Absent)}
IdParams == {NumToStr(i) : i \in Ids} \cup {"x"}

\* What data.json may hold when the server starts: nothing, a Dataset written
\* by an earlier run, or text that is no Dataset (edited, or torn by a write).
OtherTexts ==
  { <<"{">>, <<"{", "}">>, <<"null">>,
    Stringify(Obj(Arr(<<RecOf(0)>>), AbsentF, Arr(<<>>))),
    Stringify(Obj(NonArr("number"), Arr(<<>>), Arr(<<>>))),
    Stringify(EmptyDataset) \o <<"}">> }

\* const dataToSave = {clients: clients || [], ...}, after the validation.
DataToSave(b) == Obj(b.clients, b.quotes, b.invoices)

(***************************************************************************)
(* The durable file (fs).  A write succeeds, or throws leaving the file as *)
(* it was ("fail": the open is refused), or throws after the open has      *)
(* truncated the file ("torn").  A read of an existing file succeeds.      *)
(***************************************************************************)
WriteOutcomes == {"ok", "fail", "torn"}
NoFile == [exists |-> FALSE, data |-> <<>>]
FileOf(toks) == [exists |-> TRUE, data |-> toks]

\* fs.writeFileSync(DATA_FILE, text): the file afterwards, and whether it threw.
writeFileSync(f, toks, w) ==
  CASE w = "ok" -> [file |-> FileOf(toks), threw |-> FALSE]
    [] w = "torn" -> [file |-> FileOf(<<>>), threw |-> TRUE]
    [] OTHER -> [file |-> f, threw |-> TRUE]

\* initializeDataFile: create data.json with the empty Dataset when it is missing.
initializeDataFile(f, w) ==
  IF ~f.exists THEN writeFileSync(f, Stringify(EmptyDataset), w)
  ELSE [file |-> f, threw |-> FALSE]

(***************************************************************************)
(* The remote store (mongoose models over MongoDB): a collection is the    *)
(* sequence of its documents in insertion order.                           *)
(***************************************************************************)
HasId(coll, i) == \E j \in 1..Len(coll) : coll[j].id = i

\* Schema validation: id and the string fields are required.
Valid(r) == r.id # NoId /\ r.name # Absent

\* The document stored for a record: notes defaults to "".
Doc(r) == [r EXCEPT !.notes = IF @ = Absent THEN "" ELSE @]

\* The unique index on id: the server inserts in order up to the first duplicate.
RECURSIVE InsertOrdered(_, _)
InsertOrdered(coll, docs) ==
  IF Len(docs) = 0 THEN [ok |-> TRUE, coll |-> coll]
  ELSE IF HasId(coll, docs[1].id) THEN [ok |-> FALSE, coll |-> coll]
  ELSE InsertOrdered(Append(coll, Doc(docs[1])), Tail(docs))

\* Model.insertMany: every document is validated before anything is sent.
insertMany(coll, docs) ==
  IF \E j \in 1..Len(docs) : ~Valid(docs[j]) THEN [ok |-> FALSE, coll |-> coll]
  ELSE InsertOrdered(coll, docs)

\* A remote write as its caller sees it: it completes ("ok"), or it times out
\* or errors without effect ("lost") or after the server has applied it ("late").
RemoteOutcomes == {"ok", "lost", "late"}

(***************************************************************************)
(* Requests.  Of a request in flight: pc, the operation, its input (body,  *)
(* kind, rec, param), what its handler holds (data, pending, step, tx,     *)
(* counts), its response (status, success, file, mongo) and, as history,   *)
(* the store before it (pre), the file its fallback read (seen, fellBack), *)
(* whether a remote operation of it failed on the network (fault) and the  *)
(* states of the store its finds have read (snaps).                        *)
(***************************************************************************)
EmptyDb == [k \in Kinds |-> <<>>]
Idle == [pc |-> "idle", op |-> "none", body |-> NonObj("null"),
         data |-> NonObj("null"), pending |-> {}, step |-> 0,
         status |-> 0, success |-> FALSE, file |-> FALSE, mongo |-> FALSE,
         fellBack |-> FALSE, seen |-> NoFile,
         kind |-> "none", rec |-> Rec(NoId, Absent, Absent), param |-> "",
         pre |-> EmptyDb, tx |-> EmptyDb, fault |-> FALSE, snaps |-> {},
         counts |-> [k \in Kinds |-> [success |-> 0, errors |-> 0]]]

\* A validation that looks at clients only; C3 fails of it.
IsValidBodyClientsOnly(b) == b.clients.t = "arr"

\* Array.isArray on the three destructured properties of req.body.
IsValidBody(b) == \A k \in Kinds : b[k].t = "arr"

\* data.clients.length, data.quotes.length, data.invoices.length: a TypeError
\* when data is null or one of the three properties is undefined or null.
LengthThrows(d) == d.t = "null" \/ \E k \in Kinds : d[k].t \in {"absent", "null"}

\* What is remembered of a retired request.
Summary(r) == [op |-> r.op, kind |-> r.kind, rec |-> r.rec, param |-> r.param,
               body |-> r.body, counts |-> r.counts]
NoPrev == Summary(Idle)

(***************************************************************************)
(* The hybrid server (src/unnamed/part_001, lines 1-320).                  *)
(***************************************************************************)
\* A fallback that does not read the file; C4 fails of it.
LoadFromFileUnread(f, w) ==
  [file |-> initializeDataFile(f, w).file, data |-> EmptyDataset]

\* loadData, lines 139-149: the fallback on the local file.
LoadFromFile(f, w) ==
  LET init == initializeDataFile(f, w)
      p == JsonParse(init.file.data)
  IN IF init.threw \/ ~init.file.exists \/ ~p.ok
     THEN [file |-> init.file, data |-> EmptyDataset]
     ELSE [file |-> init.file, data |-> p.val]

\* A response that propagates the failure of a find; C5 fails of it.
LoadResponsePropagating(r, d) ==
  [r EXCEPT !.pc = "done", !.data = d, !.pending = {},
            !.status = IF r.fault \/ LengthThrows(d) THEN 500 ELSE 200]

\* res.json(...) of GET /data and GET /health, or the handler's catch.
LoadResponse(r, d) ==
  [r EXCEPT !.pc = "done", !.data = d, !.pending = {},
            !.status = IF LengthThrows(d) THEN 500 ELSE 200]

\* A saveData that goes to the remote store without writing the file; C14 fails of it.
SaveToFileNotAttempted(f, d, w) == [file |-> f, threw |-> FALSE]

\* saveData, lines 153-162: the local file is written first.
SaveToFile(f, d, w) == writeFileSync(f, Stringify(d), w)

\* The remote steps of saveData in order: three deleteMany, three insertMany.
FirstInsert(d, j) ==
  IF \E i \in j..3 : Len(d[KindSeq[i]].v) > 0
  THEN 3 + (CHOOSE i \in j..3 : /\ Len(d[KindSeq[i]].v) > 0
                                /\ \A h \in j..(i - 1) : Len(d[KindSeq[h]].v) = 0)
  ELSE 7
\* Remote steps that start over after the third deleteMany; C17 fails of it.
NextStepStartingOver(d, st) == IF st < 3 THEN st + 1 ELSE 1

NextStep(d, st) == IF st < 3 THEN st + 1 ELSE FirstInsert(d, st - 2)
\* Remote steps that take the collections in the opposite order; C18 fails of it.
StepKindReversed(st) == KindSeq[IF st <= 3 THEN 4 - st ELSE 7 - st]

StepKind(st) == KindSeq[IF st <= 3 THEN st ELSE st - 3]

\* What one remote step does to the store when the server applies it.
ApplyStep(store, d, st) ==
  IF st <= 3 THEN [ok |-> TRUE, db |-> [store EXCEPT ![StepKind(st)] = <<>>]]
  ELSE LET r == insertMany(store[StepKind(st)], d[StepKind(st)].v)
       IN [ok |-> r.ok, db |-> [store EXCEPT ![StepKind(st)] = r.coll]]

\* A response that asks for the remote write too; C8 fails of it.
SaveResponseBothStores(r) ==
  [r EXCEPT !.pc = "done", !.status = IF r.mongo THEN 200 ELSE 500, !.success = r.mongo]

\* A saveData whose caller never sends the response; C26 fails of it.
SaveResponseWithheld(r) == [r EXCEPT !.success = TRUE]

\* res.json({success: true, ..., storage: results}) of POST /data.
SaveResponse(r) == [r EXCEPT !.pc = "done", !.status = 200, !.success = TRUE]

HybridUp == variant = "hybrid" /\ proc = "up"
CanStart(s) == reqs[s].pc = "idle" /\ nops < MaxOps

\* Lines 301-310: initializeDataFile() at module load, then app.listen.
Startup(w) ==
  /\ variant \in {"hybrid", "file"} /\ proc = "boot"
  /\ LET init == initializeDataFile(dataFile, w)
     IN /\ dataFile' = init.file
        /\ proc' = IF init.threw THEN "crashed" ELSE "up"
        /\ created' = (~dataFile.exists /\ ~init.threw)
  /\ UNCHANGED <<prev, variant, uriSet, connectPending, mongoConnected, mongoError,
                 db, reqs, lastPut, nops>>

\* A connect that is attempted again after it failed; C16 fails of it.
ConnectSettlesRetrying(ok) ==
  /\ HybridUp /\ connectPending
  /\ connectPending' = ~ok
  /\ mongoConnected' = ok
  /\ mongoError' = IF ok THEN mongoError ELSE "error"
  /\ UNCHANGED <<created, prev, variant, proc, dataFile, uriSet, db, reqs, lastPut, nops>>

\* Lines 37-50: the one mongoose.connect settles.
ConnectSettles(ok) ==
  /\ HybridUp /\ connectPending
  /\ connectPending' = FALSE
  /\ mongoConnected' = ok
  /\ mongoError' = IF ok THEN mongoError ELSE "error"
  /\ UNCHANGED <<created, prev, variant, proc, dataFile, uriSet, db, reqs, lastPut, nops>>

\* A loadData that asks the remote store whatever the connection state; C15 fails of it.
HybridLoadAlwaysRemote(s, op, w) ==
  /\ HybridUp /\ CanStart(s)
  /\ nops' = nops + 1
  /\ reqs' = [reqs EXCEPT ![s] = [Idle EXCEPT !.op = op, !.pc = "find", !.pending = Kinds,
                                               !.data = Obj(AbsentF, AbsentF, AbsentF)]]
  /\ UNCHANGED <<created, prev, variant, proc, dataFile, uriSet, connectPending, mongoConnected,
                 mongoError, db, lastPut>>

\* GET /data and GET /health up to loadData's first await (lines 117-137, 194-241).
HybridLoad(s, op, w) ==
  /\ HybridUp /\ CanStart(s)
  /\ nops' = nops + 1
  /\ LET r == [Idle EXCEPT !.op = op]
     IN IF mongoConnected /\ uriSet
        THEN /\ reqs' = [reqs EXCEPT ![s] = [r EXCEPT !.pc = "find", !.pending = Kinds,
                                               !.data = Obj(AbsentF, AbsentF, AbsentF)]]
             /\ UNCHANGED dataFile
        ELSE LET l == LoadFromFile(dataFile, w)
             IN /\ dataFile' = l.file
                /\ reqs' = [reqs EXCEPT ![s] =
                              LoadResponse([r EXCEPT !.fellBack = TRUE, !.seen = dataFile],
                                           l.data)]
  /\ UNCHANGED <<created, prev, variant, proc, uriSet, connectPending, mongoConnected, mongoError,
                 db, lastPut>>

\* One of the three find().maxTimeMS(3000) of Promise.all settles (lines 123-136).
HybridFind(s, k, ok, w) ==
  /\ HybridUp /\ reqs[s].pc = "find" /\ k \in reqs[s].pending
  /\ LET r == reqs[s]
         got == [r.data EXCEPT ![k] = Arr(db[k])]
         l == LoadFromFile(dataFile, w)
     IN IF ok
        THEN /\ reqs' = [reqs EXCEPT ![s] =
                          IF r.pending = {k}
                          THEN LoadResponse([r EXCEPT !.snaps = @ \cup {db}], got)
                          ELSE [r EXCEPT !.data = got, !.pending = @ \ {k},
                                         !.snaps = @ \cup {db}]]
             /\ UNCHANGED dataFile
        ELSE /\ dataFile' = l.file
             /\ reqs' = [reqs EXCEPT ![s] =
                          LoadResponse([r EXCEPT !.fellBack = TRUE, !.seen = dataFile,
                                                 !.fault = TRUE], l.data)]
  /\ UNCHANGED <<created, prev, variant, proc, uriSet, connectPending, mongoConnected, mongoError,
                 db, lastPut, nops>>

\* POST /data up to saveData's first await (lines 244-267, 152-165).
HybridSave(s, b, w) ==
  /\ HybridUp /\ CanStart(s)
  /\ nops' = nops + 1
  /\ LET r == [Idle EXCEPT !.op = "save", !.body = b, !.pre = db]
         d == DataToSave(b)
         fw == SaveToFile(dataFile, d, w)
         r2 == [r EXCEPT !.data = d, !.file = ~fw.threw]
     IN IF ~IsValidBody(b)
        THEN /\ reqs' = [reqs EXCEPT ![s] = [r EXCEPT !.pc = "done", !.status = 400]]
             /\ UNCHANGED <<dataFile, lastPut>>
        ELSE /\ dataFile' = fw.file
             /\ IF mongoConnected /\ uriSet
                THEN /\ reqs' = [reqs EXCEPT ![s] = [r2 EXCEPT !.pc = "remote", !.step = 1]]
                     /\ UNCHANGED lastPut
                ELSE /\ reqs' = [reqs EXCEPT ![s] = SaveResponse(r2)]
                     /\ lastPut' = d
  /\ UNCHANGED <<created, prev, variant, proc, uriSet, connectPending, mongoConnected,
                 mongoError, db>>

\* One awaited deleteMany or insertMany of saveData settles (lines 166-186).
HybridRemote(s, o) ==
  /\ HybridUp /\ reqs[s].pc = "remote"
  /\ LET r == reqs[s]
         a == ApplyStep(db, r.data, r.step)
         nx == NextStep(r.data, r.step)
     IN /\ db' = IF o = "lost" THEN db ELSE a.db
        /\ IF o = "ok" /\ a.ok /\ nx <= 6
           THEN /\ reqs' = [reqs EXCEPT ![s] = [r EXCEPT !.step = nx]]
                /\ UNCHANGED lastPut
           ELSE /\ reqs' = [reqs EXCEPT ![s] =
                             SaveResponse([r EXCEPT !.mongo = (o = "ok" /\ a.ok),
                                                    !.fault = (o # "ok")])]
                /\ lastPut' = r.data
  /\ UNCHANGED <<created, prev, variant, proc, dataFile, uriSet, connectPending, mongoConnected,
                 mongoError, nops>>

\* The response has been sent: the slot is free again.
Retire(s) ==
  /\ reqs[s].pc = "done"
  /\ reqs' = [reqs EXCEPT ![s] = Idle]
  /\ prev' = IF reqs[s].op \in {"upsert", "delete", "migrate"} /\ reqs[s].status = 200
             THEN Summary(reqs[s]) ELSE NoPrev
  /\ UNCHANGED <<created, variant, proc, dataFile, uriSet, connectPending, mongoConnected,
                 mongoError, db, lastPut, nops>>

(***************************************************************************)
(* The file-only server (src/unnamed/part_002): synchronous handlers.      *)
(***************************************************************************)
NoPut == NonObj("null")
FileUp == variant = "file" /\ proc = "up"

\* GET /data, lines 33-54: any exception answers 500 (data.clients of null is one).
FileLoad(s, w) ==
  /\ FileUp /\ CanStart(s)
  /\ nops' = nops + 1
  /\ LET init == initializeDataFile(dataFile, w)
         p == JsonParse(init.file.data)
         bad == init.threw \/ ~init.file.exists \/ ~p.ok \/ p.val.t = "null"
         r == [Idle EXCEPT !.op = "data", !.pc = "done", !.seen = dataFile,
                           !.fellBack = TRUE]
     IN /\ dataFile' = init.file
        /\ reqs' = [reqs EXCEPT ![s] =
                      IF bad THEN [r EXCEPT !.status = 500]
                      ELSE [r EXCEPT !.status = 200, !.data = p.val]]
  /\ UNCHANGED <<created, prev, variant, proc, uriSet, connectPending, mongoConnected, mongoError,
                 db, lastPut>>

\* POST /data, lines 57-98.
FileSave(s, b, w) ==
  /\ FileUp /\ CanStart(s)
  /\ nops' = nops + 1
  /\ LET r == [Idle EXCEPT !.op = "save", !.body = b, !.pc = "done"]
         d == DataToSave(b)
         fw == writeFileSync(dataFile, Stringify(d), w)
     IN IF ~IsValidBody(b)
        THEN /\ reqs' = [reqs EXCEPT ![s] = [r EXCEPT !.status = 400]]
             /\ UNCHANGED <<dataFile, lastPut>>
        ELSE /\ dataFile' = fw.file
             /\ reqs' = [reqs EXCEPT ![s] =
                           IF fw.threw THEN [r EXCEPT !.data = d, !.status = 500]
                           ELSE [r EXCEPT !.data = d, !.status = 200, !.success = TRUE,
                                          !.file = TRUE]]
             /\ lastPut' = IF fw.threw THEN NoPut ELSE d
  /\ UNCHANGED <<created, prev, variant, proc, uriSet, connectPending, mongoConnected,
                 mongoError, db>>

(***************************************************************************)
(* mongoose operations used by the servers over MongoDB.                   *)
(***************************************************************************)
IndexOf(coll, i) == CHOOSE j \in 1..Len(coll) : coll[j].id = i

\* find().sort({id: 1})
RECURSIVE SortById(_)
SortById(coll) ==
  IF Len(coll) = 0 THEN <<>>
  ELSE LET m == CHOOSE j \in 1..Len(coll) : \A h \in 1..Len(coll) : coll[j].id <= coll[h].id
       IN <<coll[m]>> \o SortById(SubSeq(coll, 1, m - 1) \o SubSeq(coll, m + 1, Len(coll)))

\* A save that replaces a stored document of the same identifier; C21 fails of it.
saveReplacing(coll, r) ==
  IF ~Valid(r) THEN [ok |-> FALSE, coll |-> coll]
  ELSE [ok |-> TRUE,
        coll |-> SelectSeq(coll, LAMBDA d : d.id # r.id) \o <<Doc(r)>>]

\* new Model(r).save(): validation, then an insert under the unique index.
save(coll, r) ==
  IF Valid(r) /\ ~HasId(coll, r.id) THEN [ok |-> TRUE, coll |-> Append(coll, Doc(r))]
  ELSE [ok |-> FALSE, coll |-> coll]

\* The update document r is applied as $set: the properties r has are assigned.
SetFields(d, r) ==
  [id |-> IF r.id = NoId THEN d.id ELSE r.id,
   name |-> IF r.name = Absent THEN d.name ELSE r.name,
   notes |-> IF r.notes = Absent THEN d.notes ELSE r.notes]

\* Model.findOneAndUpdate({id: i}, r, {new: true, upsert}); no validation is run.
findOneAndUpdate(coll, i, r, upsert) ==
  IF HasId(coll, i)
  THEN [found |-> TRUE,
        coll |-> [coll EXCEPT ![IndexOf(coll, i)] = SetFields(@, r)]]
  ELSE IF upsert
  THEN [found |-> TRUE, coll |-> Append(coll, Doc([r EXCEPT !.id = i]))]
  ELSE [found |-> FALSE, coll |-> coll]

\* Model.deleteOne({id: i})
RECURSIVE deleteOne(_, _)
deleteOne(coll, i) ==
  IF Len(coll) = 0 THEN <<>>
  ELSE IF coll[1].id = i THEN Tail(coll)
  ELSE <<coll[1]>> \o deleteOne(Tail(coll), i)

\* parseInt(req.params.id)
NaN == -2
parseInt(t) == IF IsDigit(t) THEN StrToNum(t) ELSE NaN

(***************************************************************************)
(* The transactional server (src/server.js, lines 1-381).                  *)
(***************************************************************************)
ApiUp == variant = "api" /\ proc = "up"
MongoUp == variant = "mongo" /\ proc = "up"

\* Three awaited find().sort({id: 1}), in order: clients, quotes, invoices.
StartSortedFinds(s) ==
  /\ CanStart(s)
  /\ nops' = nops + 1
  /\ reqs' = [reqs EXCEPT ![s] = [Idle EXCEPT !.op = "data", !.pc = "sfind", !.step = 1,
                                               !.pre = db,
                                               !.data = Obj(AbsentF, AbsentF, AbsentF)]]
  /\ UNCHANGED <<created, prev, variant, proc, dataFile, uriSet, connectPending, mongoConnected,
                 mongoError, db, lastPut>>

SortedFindSettles(s, ok) ==
  /\ reqs[s].pc = "sfind"
  /\ LET r == reqs[s]
         k == KindSeq[r.step]
         got == [r.data EXCEPT ![k] = Arr(SortById(db[k]))]
     IN reqs' = [reqs EXCEPT ![s] =
                   IF ~ok THEN [r EXCEPT !.pc = "done", !.status = 500, !.fault = TRUE]
                   ELSE IF r.step = 3
                   THEN [r EXCEPT !.pc = "done", !.status = 200, !.data = got,
                                  !.snaps = @ \cup {db}]
                   ELSE [r EXCEPT !.step = @ + 1, !.data = got, !.snaps = @ \cup {db}]]
  /\ UNCHANGED <<created, prev, variant, proc, dataFile, uriSet, connectPending, mongoConnected,
                 mongoError, db, lastPut, nops>>

\* GET /api/data, lines 87-115.
ApiLoad(s) == ApiUp /\ StartSortedFinds(s)
ApiFind(s, ok) == ApiUp /\ SortedFindSettles(s, ok)

\* POST /api/data up to startSession (lines 118-137).
ApiSave(s, b) ==
  /\ ApiUp /\ CanStart(s)
  /\ nops' = nops + 1
  /\ LET r == [Idle EXCEPT !.op = "save", !.body = b, !.pre = db]
     IN reqs' = [reqs EXCEPT ![s] =
                   IF ~IsValidBody(b) THEN [r EXCEPT !.pc = "done", !.status = 400]
                   ELSE [r EXCEPT !.pc = "tx", !.step = 1, !.data = DataToSave(b),
                                  !.tx = db]]
  /\ UNCHANGED <<created, prev, variant, proc, dataFile, uriSet, connectPending, mongoConnected,
                 mongoError, db, lastPut>>

\* One awaited step in the session (lines 139-157): the deletes and inserts act
\* on the transaction's view; commitTransaction publishes it; an error aborts.
ApiTxStep(s, ok) ==
  /\ ApiUp /\ reqs[s].pc = "tx"
  /\ LET r == reqs[s]
         a == ApplyStep(r.tx, r.data, r.step)
         nx == NextStep(r.data, r.step)
     IN IF r.step = 7
        THEN IF ok
             THEN /\ db' = r.tx
                  /\ lastPut' = r.data
                  /\ reqs' = [reqs EXCEPT ![s] = SaveResponse(r)]
             ELSE /\ reqs' = [reqs EXCEPT ![s] = [r EXCEPT !.pc = "done", !.status = 500,
                                                            !.fault = TRUE]]
                  /\ UNCHANGED <<db, lastPut>>
        ELSE /\ reqs' = [reqs EXCEPT ![s] =
                           IF ok /\ a.ok THEN [r EXCEPT !.step = nx, !.tx = a.db]
                           ELSE [r EXCEPT !.pc = "done", !.status = 500, !.fault = ~ok]]
             /\ UNCHANGED <<db, lastPut>>
  /\ UNCHANGED <<created, prev, variant, proc, dataFile, uriSet, connectPending, mongoConnected,
                 mongoError, nops>>

\* if (clientData.id), if (quoteData.id && ...): 0 and undefined are falsy.
Truthy(i) == i # NoId /\ i # 0

\* The response of a record-level handler: res.json(record) or the catch's 500.
RecordResponse(r, ok, up) ==
  [r EXCEPT !.pc = "done", !.status = IF ok /\ up THEN 200 ELSE 500, !.fault = ~up]

\* POST /api/clients, lines 190-214: one awaited operation.
ApiUpsertClient(s, rec, up) ==
  /\ ApiUp /\ CanStart(s)
  /\ nops' = nops + 1
  /\ LET r == [Idle EXCEPT !.op = "upsert", !.kind = "clients", !.rec = rec, !.pre = db]
         u == findOneAndUpdate(db.clients, rec.id, rec, TRUE)
         c == save(db.clients, rec)
     IN IF Truthy(rec.id)
        THEN /\ db' = IF up THEN [db EXCEPT !.clients = u.coll] ELSE db
             /\ reqs' = [reqs EXCEPT ![s] = RecordResponse(r, TRUE, up)]
        ELSE /\ db' = IF up THEN [db EXCEPT !.clients = c.coll] ELSE db
             /\ reqs' = [reqs EXCEPT ![s] = RecordResponse(r, c.ok, up \/ ~Valid(rec))]
  /\ UNCHANGED <<created, prev, variant, proc, dataFile, uriSet, connectPending, mongoConnected,
                 mongoError, lastPut>>

\* POST /api/quotes and POST /api/invoices, lines 217-268, up to the response
\* or to the end of the awaited findOne.
ApiUpsert(s, k, rec, up) ==
  /\ ApiUp /\ CanStart(s) /\ k \in {"quotes", "invoices"}
  /\ nops' = nops + 1
  /\ LET r == [Idle EXCEPT !.op = "upsert", !.kind = k, !.rec = rec, !.pre = db]
         c == save(db[k], rec)
     IN IF Truthy(rec.id)
        THEN /\ reqs' = [reqs EXCEPT ![s] =
                           IF up THEN [r EXCEPT !.pc = "found", !.success = HasId(db[k], rec.id)]
                           ELSE RecordResponse(r, FALSE, FALSE)]
             /\ UNCHANGED db
        ELSE /\ db' = IF up THEN [db EXCEPT ![k] = c.coll] ELSE db
             /\ reqs' = [reqs EXCEPT ![s] = RecordResponse(r, c.ok, up \/ ~Valid(rec))]
  /\ UNCHANGED <<created, prev, variant, proc, dataFile, uriSet, connectPending, mongoConnected,
                 mongoError, lastPut>>

\* The awaited findOneAndUpdate (found) or save (not found) of lines 222-235, 249-262.
ApiUpsertWrite(s, up) ==
  /\ ApiUp /\ reqs[s].pc = "found"
  /\ LET r == reqs[s]
         k == r.kind
         u == findOneAndUpdate(db[k], r.rec.id, r.rec, FALSE)
         c == save(db[k], r.rec)
     IN IF r.success
        THEN /\ db' = IF up THEN [db EXCEPT ![k] = u.coll] ELSE db
             /\ reqs' = [reqs EXCEPT ![s] =
                           RecordResponse([r EXCEPT !.success = FALSE], u.found, up)]
        ELSE /\ db' = IF up THEN [db EXCEPT ![k] = c.coll] ELSE db
             /\ reqs' = [reqs EXCEPT ![s] = RecordResponse(r, c.ok, up \/ ~Valid(r.rec))]
  /\ UNCHANGED <<created, prev, variant, proc, dataFile, uriSet, connectPending, mongoConnected,
                 mongoError, lastPut, nops>>

\* DELETE /api/clients/:id, lines 271-281; {id: NaN} is a cast error.
ApiDelete(s, param, up) ==
  /\ ApiUp /\ CanStart(s)
  /\ nops' = nops + 1
  /\ LET r == [Idle EXCEPT !.op = "delete", !.kind = "clients", !.param = param, !.pre = db]
         clientId == parseInt(param)
     IN IF clientId = NaN
        THEN /\ reqs' = [reqs EXCEPT ![s] = RecordResponse(r, FALSE, TRUE)]
             /\ UNCHANGED db
        ELSE /\ db' = IF up THEN [db EXCEPT !.clients = deleteOne(@, clientId)] ELSE db
             /\ reqs' = [reqs EXCEPT ![s] =
                           [RecordResponse(r, TRUE, up) EXCEPT !.success = up]]
  /\ UNCHANGED <<created, prev, variant, proc, dataFile, uriSet, connectPending, mongoConnected,
                 mongoError, lastPut>>

\* A migration that stops at the first kind in which a save was rejected; C10
\* fails of it.
RECURSIVE MigrateFromAborting(_, _)
MigrateFromAborting(r, j) ==
  IF j > 3 \/ (j > 1 /\ r.counts[KindSeq[j - 1]].errors > 0)
  THEN [r EXCEPT !.pc = "done", !.status = 200, !.success = TRUE, !.pending = {}]
  ELSE IF r.body[KindSeq[j]].t # "arr"
  THEN [r EXCEPT !.pc = "done", !.status = 500, !.pending = {}]
  ELSE IF Len(r.body[KindSeq[j]].v) = 0 THEN MigrateFromAborting(r, j + 1)
  ELSE [r EXCEPT !.pc = "migrate", !.step = j, !.pending = 1..Len(r.body[KindSeq[j]].v)]

\* POST /api/migrate, lines 312-357: kind after kind, records.map(r => save(r))
\* under Promise.allSettled; x.map on a value that is no array is a TypeError.
RECURSIVE MigrateFrom(_, _)
MigrateFrom(r, j) ==
  IF j > 3 THEN [r EXCEPT !.pc = "done", !.status = 200, !.success = TRUE, !.pending = {}]
  ELSE IF r.body[KindSeq[j]].t # "arr"
  THEN [r EXCEPT !.pc = "done", !.status = 500, !.pending = {}]
  ELSE IF Len(r.body[KindSeq[j]].v) = 0 THEN MigrateFrom(r, j + 1)
  ELSE [r EXCEPT !.pc = "migrate", !.step = j, !.pending = 1..Len(r.body[KindSeq[j]].v)]

ApiMigrate(s, b) ==
  /\ ApiUp /\ CanStart(s)
  /\ nops' = nops + 1
  /\ reqs' = [reqs EXCEPT ![s] =
                MigrateFrom([Idle EXCEPT !.op = "migrate", !.body = b, !.pre = db], 1)]
  /\ UNCHANGED <<created, prev, variant, proc, dataFile, uriSet, connectPending, mongoConnected,
                 mongoError, db, lastPut>>

\* One of the pending saves of the current kind settles, in any order.
ApiMigrateSave(s, j, up) ==
  /\ ApiUp /\ reqs[s].pc = "migrate" /\ j \in reqs[s].pending
  /\ LET r == reqs[s]
         k == KindSeq[r.step]
         rec == r.body[k].v[j]
         c == save(db[k], rec)
         fulfilled == c.ok /\ (up \/ ~Valid(rec))
         r2 == [r EXCEPT !.pending = @ \ {j},
                         !.fault = @ \/ (~up /\ Valid(rec)),
                         !.counts[k] = IF fulfilled
                                       THEN [@ EXCEPT !.success = @ + 1]
                                       ELSE [@ EXCEPT !.errors = @ + 1]]
     IN /\ db' = IF up THEN [db EXCEPT ![k] = c.coll] ELSE db
        /\ reqs' = [reqs EXCEPT ![s] =
                      IF r2.pending = {} THEN MigrateFrom(r2, r.step + 1) ELSE r2]
  /\ UNCHANGED <<created, prev, variant, proc, dataFile, uriSet, connectPending, mongoConnected,
                 mongoError, lastPut, nops>>

(***************************************************************************)
(* The Mongo-only server without transactions (part_001, lines 432-665).   *)
(***************************************************************************)
\* GET /data, lines 558-586.
MongoLoad(s) == MongoUp /\ StartSortedFinds(s)
MongoFind(s, ok) == MongoUp /\ SortedFindSettles(s, ok)

\* POST /data up to the first deleteMany (lines 589-607).
MongoSave(s, b) ==
  /\ MongoUp /\ CanStart(s)
  /\ nops' = nops + 1
  /\ LET r == [Idle EXCEPT !.op = "save", !.body = b, !.pre = db]
     IN reqs' = [reqs EXCEPT ![s] =
                   IF ~IsValidBody(b) THEN [r EXCEPT !.pc = "done", !.status = 400]
                   ELSE [r EXCEPT !.pc = "steps", !.step = 1, !.data = DataToSave(b)]]
  /\ UNCHANGED <<created, prev, variant, proc, dataFile, uriSet, connectPending, mongoConnected,
                 mongoError, db, lastPut>>

\* One awaited deleteMany or insertMany settles (lines 607-619); an error
\* answers 500 and leaves the store as the steps so far have made it.
MongoStep(s, up) ==
  /\ MongoUp /\ reqs[s].pc = "steps"
  /\ LET r == reqs[s]
         a == ApplyStep(db, r.data, r.step)
         nx == NextStep(r.data, r.step)
     IN /\ db' = IF up THEN a.db ELSE db
        /\ IF up /\ a.ok
           THEN IF nx <= 6
                THEN /\ reqs' = [reqs EXCEPT ![s] = [r EXCEPT !.step = nx]]
                     /\ UNCHANGED lastPut
                ELSE /\ reqs' = [reqs EXCEPT ![s] = SaveResponse(r)]
                     /\ lastPut' = r.data
           ELSE /\ reqs' = [reqs EXCEPT ![s] = [r EXCEPT !.pc = "done", !.status = 500,
                                                         !.fault = ~up]]
                /\ lastPut' = NoPut
  /\ UNCHANGED <<created, prev, variant, proc, dataFile, uriSet, connectPending, mongoConnected,
                 mongoError, nops>>

(***************************************************************************)
(* The initial states.                                                     *)
(***************************************************************************)
InitFiles ==
  {NoFile} \cup {FileOf(t) : t \in OtherTexts}
  \cup {FileOf(Stringify(d)) :
          d \in {EmptyDataset, Dataset(<<RecOf(MaxId), RecOf(0)>>, <<RecOf(MaxId)>>, <<>>)}}

InitColls == {<<>>} \cup {<<Doc(RecOf(i))>> : i \in Ids}
                    \cup {<<Doc(RecOf(MaxId)), Doc(RecOf(0))>>}
InitDbs == {[clients |-> c, quotes |-> <<>>, invoices |-> <<>>] : c \in InitColls}
           \cup {[clients |-> c, quotes |-> <<Doc(RecOf(MaxId))>>,
                   invoices |-> <<Doc(RecOf(0))>>] : c \in InitColls}
SmallDbs == {EmptyDb, [clients |-> <<Doc(RecOf(0))>>, quotes |-> <<Doc(RecOf(MaxId))>>,
                       invoices |-> <<>>]}

Slots == {1}
InitCommon ==
  /\ reqs = [s \in Slots |-> Idle]
  /\ lastPut = NoPut
  /\ created = FALSE
  /\ prev = NoPrev
  /\ nops = 0
  /\ mongoConnected = FALSE
  /\ mongoError = "null"

InitHybrid ==
  /\ variant = "hybrid" /\ proc = "boot"
  /\ dataFile \in InitFiles
  /\ uriSet \in BOOLEAN
  /\ connectPending = uriSet
  /\ db \in (IF uriSet THEN SmallDbs ELSE {EmptyDb})
  /\ InitCommon

InitFile ==
  /\ variant = "file" /\ proc = "boot"
  /\ dataFile \in InitFiles
  /\ uriSet = FALSE /\ connectPending = FALSE /\ db = EmptyDb
  /\ InitCommon

InitApi ==
  /\ variant = "api" /\ proc = "up"
  /\ dataFile = NoFile
  /\ uriSet = TRUE /\ connectPending = FALSE /\ db \in InitDbs
  /\ InitCommon

InitMongo ==
  /\ variant = "mongo" /\ proc = "up"
  /\ dataFile = NoFile
  /\ uriSet = TRUE /\ connectPending = FALSE /\ db \in SmallDbs
  /\ InitCommon

HybridSteps ==
  \/ \E w \in WriteOutcomes : Startup(w)
  \/ \E ok \in BOOLEAN : ConnectSettles(ok)
  \/ \E s \in DOMAIN reqs, op \in {"data", "health"}, w \in WriteOutcomes : HybridLoad(s, op, w)
  \/ \E s \in DOMAIN reqs, k \in Kinds, ok \in BOOLEAN, w \in WriteOutcomes :
        HybridFind(s, k, ok, w)
  \/ \E s \in DOMAIN reqs, b \in Bodies, w \in WriteOutcomes : HybridSave(s, b, w)
  \/ \E s \in DOMAIN reqs, o \in RemoteOutcomes : HybridRemote(s, o)

FileSteps ==
  \/ \E w \in WriteOutcomes : Startup(w)
  \/ \E s \in DOMAIN reqs, w \in WriteOutcomes : FileLoad(s, w)
  \/ \E s \in DOMAIN reqs, b \in Bodies, w \in WriteOutcomes : FileSave(s, b, w)

ApiSteps ==
  \/ \E s \in DOMAIN reqs : ApiLoad(s)
  \/ \E s \in DOMAIN reqs, ok \in BOOLEAN : ApiFind(s, ok)
  \/ \E s \in DOMAIN reqs, b \in Bodies : ApiSave(s, b)
  \/ \E s \in DOMAIN reqs, ok \in BOOLEAN : ApiTxStep(s, ok)
  \/ \E s \in DOMAIN reqs, r \in UpsertRecs, up \in BOOLEAN : ApiUpsertClient(s, r, up)
  \/ \E s \in DOMAIN reqs, k \in {"quotes", "invoices"}, r \in UpsertRecs, up \in BOOLEAN :
        ApiUpsert(s, k, r, up)
  \/ \E s \in DOMAIN reqs, up \in BOOLEAN : ApiUpsertWrite(s, up)
  \/ \E s \in DOMAIN reqs, t \in IdParams, up \in BOOLEAN : ApiDelete(s, t, up)
  \/ \E s \in DOMAIN reqs, b \in Bodies : ApiMigrate(s, b)
  \/ \E s \in DOMAIN reqs, j \in 1..2, up \in BOOLEAN : ApiMigrateSave(s, j, up)

MongoSteps ==
  \/ \E s \in DOMAIN reqs : MongoLoad(s)
  \/ \E s \in DOMAIN reqs, ok \in BOOLEAN : MongoFind(s, ok)
  \/ \E s \in DOMAIN reqs, b \in Bodies : MongoSave(s, b)
  \/ \E s \in DOMAIN reqs, up \in BOOLEAN : MongoStep(s, up)

Retires == \E s \in DOMAIN reqs : Retire(s)

NextHybrid == HybridSteps \/ Retires
NextFile == FileSteps \/ Retires
NextApi == ApiSteps \/ Retires
NextMongo == MongoSteps \/ Retires

SpecHybrid == InitHybrid /\ [][NextHybrid]_vars
SpecFile == InitFile /\ [][NextFile]_vars
SpecApi == InitApi /\ [][NextApi]_vars
SpecMongo == InitMongo /\ [][NextMongo]_vars

Init == InitHybrid \/ InitFile \/ InitApi \/ InitMongo
Next == HybridSteps \/ FileSteps \/ ApiSteps \/ MongoSteps \/ Retires
Spec == Init /\ [][Next]_vars

(***************************************************************************)
(* Two requests in flight: a handler that awaits leaves the event loop to  *)
(* the other request.  The servers start connected, over a store that      *)
(* holds records; the transactional server is run with its whole-Dataset   *)
(* requests, GET /api/data and POST /api/data.                             *)
(***************************************************************************)
TwoSlots == {1, 2}
InitTwo ==
  /\ reqs = [s \in TwoSlots |-> Idle]
  /\ lastPut = NoPut /\ created = FALSE /\ prev = NoPrev /\ nops = 0
  /\ mongoError = "null" /\ mongoConnected = FALSE
  /\ uriSet = TRUE
  /\ db \in SmallDbs

InitHybridTwo ==
  /\ variant = "hybrid" /\ proc = "boot"
  /\ dataFile = FileOf(Stringify(EmptyDataset))
  /\ connectPending = TRUE
  /\ InitTwo

InitApiTwo ==
  /\ variant = "api" /\ proc = "up"
  /\ dataFile = NoFile
  /\ connectPending = FALSE
  /\ InitTwo

InitMongoTwo ==
  /\ variant = "mongo" /\ proc = "up"
  /\ dataFile = NoFile
  /\ connectPending = FALSE
  /\ InitTwo

ApiDatasetSteps ==
  \/ \E s \in DOMAIN reqs : ApiLoad(s)
  \/ \E s \in DOMAIN reqs, ok \in BOOLEAN : ApiFind(s, ok)
  \/ \E s \in DOMAIN reqs, b \in Bodies : ApiSave(s, b)
  \/ \E s \in DOMAIN reqs, ok \in BOOLEAN : ApiTxStep(s, ok)

NextApiTwo == ApiDatasetSteps \/ Retires
SpecHybridTwo == InitHybridTwo /\ [][NextHybrid]_vars
SpecApiTwo == InitApiTwo /\ [][NextApiTwo]_vars
SpecMongoTwo == InitMongoTwo /\ [][NextMongo]_vars

\* The record-level POST requests, two of them in flight.
ApiUpsertSteps ==
  \/ \E s \in DOMAIN reqs, r \in UpsertRecs, up \in BOOLEAN : ApiUpsertClient(s, r, up)
  \/ \E s \in DOMAIN reqs, k \in {"quotes", "invoices"}, r \in UpsertRecs, up \in BOOLEAN :
        ApiUpsert(s, k, r, up)
  \/ \E s \in DOMAIN reqs, up \in BOOLEAN : ApiUpsertWrite(s, up)

NextApiUpsertTwo == ApiUpsertSteps \/ Retires
SpecApiUpsertTwo == InitApiTwo /\ [][NextApiUpsertTwo]_vars

\* Every remote operation a hybrid request awaits is answered or times out
\* (maxTimeMS, lines 123-125 and 166-178): the awaiting request is resumed.
HybridFindSettles(s) ==
  \/ \E k \in Kinds : HybridFind(s, k, TRUE, "ok")
  \/ \E k \in Kinds, w \in WriteOutcomes : HybridFind(s, k, FALSE, w)
HybridRemoteSettles(s) == \E o \in RemoteOutcomes : HybridRemote(s, o)
HybridFair ==
  \A s \in Slots : WF_vars(HybridFindSettles(s)) /\ WF_vars(HybridRemoteSettles(s))
SpecHybridLive == InitHybrid /\ [][NextHybrid]_vars /\ HybridFair

(***************************************************************************)
(* The properties.  A request that has been answered is at pc "done" with  *)
(* its response in status, success, data; loadAll is GET /data, GET        *)
(* /health is the other caller of loadData.                                *)
(***************************************************************************)
Loads == {"data", "health"}

\* C1: with the remote store not connected during the whole run, a GET /data
\* that follows a POST /data of a Dataset D, no other write in between,
\* returns a Dataset equal to D, collection by collection and in order.
C1_RoundTrip ==
  \A s \in Slots :
    LET r == reqs[s]
    IN (/\ variant \in {"hybrid", "file"} /\ ~mongoConnected
        /\ r.pc = "done" /\ r.op = "data" /\ lastPut # NoPut)
       => r.status = 200 /\ r.data = lastPut

\* C2: in the hybrid variant, a POST /data of a valid body whose write of
\* data.json failed is answered with a 5xx status and without success: true,
\* whether the remote write succeeded, failed or was not attempted.
C2_FileFailureReported ==
  \A s \in Slots :
    LET r == reqs[s]
    IN (/\ variant = "hybrid" /\ r.pc = "done" /\ r.op = "save"
        /\ \A k \in Kinds : r.body[k].t = "arr"
        /\ ~r.file)
       => r.status >= 500 /\ ~r.success

\* C3: in every variant, a POST of a body in which clients, quotes or invoices
\* is missing or is no array is answered 400 at once, and data.json and the
\* three remote collections are after the call what they were before it.
C3_InvalidInputNoWrite ==
  [][\A s \in Slots :
       (/\ reqs[s].pc = "idle" /\ reqs'[s].op = "save"
        /\ \E k \in Kinds : reqs'[s].body[k].t # "arr")
       => /\ reqs'[s].pc = "done" /\ reqs'[s].status = 400 /\ ~reqs'[s].success
          /\ dataFile' = dataFile /\ db' = db]_vars

C3_Witness ==
  \E s \in Slots :
    /\ variant = "api" /\ reqs[s].pc = "done" /\ reqs[s].op = "save"
    /\ reqs[s].body.quotes.t = "string" /\ reqs[s].status = 400
    /\ db.clients # <<>>

\* C4: while the remote store is not connected, loadData returns the content
\* of data.json, which exists whenever a request is served; when the file was
\* missing, it was created with the empty Dataset before the first request,
\* and the load returns that empty Dataset with status 200.
C4_LoadWhenNotConnected ==
  /\ (variant = "hybrid" /\ proc = "up") => dataFile.exists
  /\ \A s \in Slots :
       LET r == reqs[s]
           p == JsonParse(r.seen.data)
       IN (/\ variant = "hybrid" /\ ~mongoConnected
           /\ r.pc = "done" /\ r.op \in Loads)
          => /\ r.fellBack /\ r.seen.exists
             /\ p.ok => r.data = p.val
             /\ (p.ok /\ IsDataset(p.val)) => r.status = 200
             /\ (created /\ lastPut = NoPut)
                  => r.data = EmptyDataset /\ r.status = 200

C4_Witness ==
  \E s \in Slots :
    /\ variant = "hybrid" /\ ~mongoConnected /\ created /\ lastPut = NoPut
    /\ reqs[s].pc = "done" /\ reqs[s].op = "data"
    /\ reqs[s].seen = FileOf(Stringify(EmptyDataset))
    /\ reqs[s].data = EmptyDataset /\ reqs[s].status = 200

\* C5: when the remote store is connected and one of the three finds of
\* loadData fails, loadData falls back to data.json and returns what the file
\* holds; the caller gets the file's Dataset with status 200, no error.
C5_FindFailureFallsBack ==
  \A s \in Slots :
    LET r == reqs[s]
        p == JsonParse(r.seen.data)
    IN (variant = "hybrid" /\ r.pc = "done" /\ r.op \in Loads /\ r.fault)
       => /\ r.fellBack /\ r.seen.exists
          /\ r.data = IF p.ok THEN p.val ELSE EmptyDataset
          /\ IsDataset(r.data) => r.status = 200

C5_Witness ==
  \E s \in Slots :
    /\ variant = "hybrid" /\ mongoConnected
    /\ reqs[s].pc = "done" /\ reqs[s].op = "data" /\ reqs[s].fault
    /\ reqs[s].status = 200 /\ IsDataset(reqs[s].data)
    /\ Len(reqs[s].data.clients.v) = 2 /\ Len(db.clients) # 2

\* C6: whatever data.json holds, a load served from the file returns a Dataset
\* of three sequences, the empty Dataset when the file holds no well-formed
\* Dataset, and GET /data and GET /health are not answered 500.
C6_AnyFileContent ==
  \A s \in Slots :
    LET r == reqs[s]
        p == JsonParse(r.seen.data)
    IN (variant = "hybrid" /\ r.pc = "done" /\ r.op \in Loads /\ r.fellBack)
       => /\ IsDataset(r.data) /\ r.status = 200
          /\ ~(p.ok /\ IsDataset(p.val)) => r.data = EmptyDataset

\* C7: a record-level upsert that repeats the upsert answered just before it,
\* same kind and same record, is answered 200, leaves the store as the first
\* call left it, and the collection holds the record's identifier once.
C7_UpsertIdempotent ==
  \A s \in Slots :
    LET r == reqs[s]
    IN (/\ variant = "api" /\ r.pc = "done" /\ r.op = "upsert" /\ ~r.fault
        /\ prev.op = "upsert" /\ prev.kind = r.kind /\ prev.rec = r.rec)
       => /\ r.status = 200
          /\ db = r.pre
          /\ Cardinality({j \in 1..Len(db[r.kind]) : db[r.kind][j].id = r.rec.id}) = 1

C9_UpsertThenDelete ==
  \A s \in Slots :
    LET r == reqs[s]
        At(coll, x) == {j \in 1..Len(coll) : coll[j].id = x}
        Shows(d, x) == /\ x.name # Absent => d.name = x.name
                       /\ x.notes # Absent => d.notes = x.notes
        Answered(op) == variant = "api" /\ r.pc = "done" /\ r.op = op /\ ~r.fault
    IN /\ (/\ Answered("upsert") /\ r.kind = "clients"
           /\ Cardinality(At(r.pre.clients, r.rec.id)) = 1)
          => /\ r.status = 200
             /\ Cardinality(At(db.clients, r.rec.id)) = 1
             /\ \A j \in At(db.clients, r.rec.id) : Shows(db.clients[j], r.rec)
             /\ Len(db.clients) = Len(r.pre.clients)
             /\ db.quotes = r.pre.quotes /\ db.invoices = r.pre.invoices
       /\ (Answered("data") /\ prev.op = "upsert" /\ prev.kind = "clients")
          => /\ r.status = 200
             /\ Len(r.data.clients.v) = Len(db.clients)
             /\ Cardinality(At(r.data.clients.v, prev.rec.id)) = 1
             /\ \A j \in At(r.data.clients.v, prev.rec.id) :
                  Shows(r.data.clients.v[j], prev.rec)
       /\ (Answered("delete") /\ IsDigit(r.param))
          => /\ r.status = 200
             /\ At(db.clients, StrToNum(r.param)) = {}
             /\ db.clients = SelectSeq(r.pre.clients, LAMBDA d : d.id # StrToNum(r.param))
             /\ db.quotes = r.pre.quotes /\ db.invoices = r.pre.invoices
       /\ (Answered("data") /\ prev.op = "delete" /\ IsDigit(prev.param))
          => /\ r.status = 200
             /\ At(r.data.clients.v, StrToNum(prev.param)) = {}

DocsOf(recs) == [j \in 1..Len(recs) |-> Doc(recs[j])]

\* What GET /api/data and the Mongo-only GET /data answer of a store in state S.
SortedView(S) == Obj(Arr(SortById(S.clients)), Arr(SortById(S.quotes)),
                     Arr(SortById(S.invoices)))

\* POST /api/data changes the store at its commit only: a step of the
\* transaction that is no successful commit leaves the three collections as
\* they are and, if it ends the request, answers 500; the commit answers 200
\* and leaves in each collection exactly the documents of D.
TxAllOrNothing ==
  \A s \in DOMAIN reqs :
    LET r == reqs[s]
        q == reqs'[s]
    IN (variant = "api" /\ r.pc = "tx" /\ q # r)
       => \/ /\ db' = db
             /\ q.pc \in {"tx", "done"}
             /\ q.pc = "done" => q.status = 500 /\ ~q.success
          \/ /\ r.step = 7 /\ q.pc = "done" /\ q.status = 200
             /\ \A k \in Kinds : db'[k] = DocsOf(r.data[k].v)

\* C11: in the transactional variant POST /api/data is all-or-nothing (a
\* failed step aborts, leaves the three collections as they were and answers
\* 500; a commit leaves exactly D), and no other request observes some
\* collections replaced and others not: what a GET /api/data answers is the
\* content of the three collections in one state of the store.
C11_AllOrNothing ==
  [][/\ TxAllOrNothing
     /\ \A s \in DOMAIN reqs :
          (/\ variant = "api" /\ reqs[s].pc = "sfind"
           /\ reqs'[s].pc = "done" /\ reqs'[s].status = 200)
          => \E S \in reqs'[s].snaps : reqs'[s].data = SortedView(S)]_vars

\* What the hybrid GET /data answers of a store in state S (lines 123-136).
RemoteView(S) == Obj(Arr(S.clients), Arr(S.quotes), Arr(S.invoices))
ViewOf(S) == IF variant = "hybrid" THEN RemoteView(S) ELSE SortedView(S)

\* C12: a GET /data answered from the remote store while a POST /data of a
\* Dataset D is in flight, on a store that held D0 when the POST began,
\* returns D0 or D and no combination of the two.
C12_AtomicObservation ==
  [][\A s, t \in DOMAIN reqs :
       (/\ variant \in {"hybrid", "mongo"}
        /\ reqs[s].pc \in {"find", "sfind"}
        /\ reqs'[s].pc = "done" /\ reqs'[s].status = 200 /\ ~reqs'[s].fellBack
        /\ reqs[t].pc \in {"remote", "steps"})
       => \/ reqs'[s].data = ViewOf(reqs[t].pre)
          \/ reqs'[s].data = ViewOf([k \in Kinds |-> DocsOf(reqs[t].data[k].v)])]_vars

\* The remote store when it holds exactly the Dataset d.
StoreOf(d) == [k \in Kinds |-> DocsOf(d[k].v)]

\* C13: in the hybrid variant with the remote store connected, when two
\* overlapping POST /data have both finished, each with its file write and all
\* of its remote steps completed, data.json holds the Dataset of one of the
\* two calls and the remote store holds the Dataset of one of the two calls
\* (of the call that wrote it last), possibly not the same call.
C13_LastWriterWins ==
  \A s, t \in DOMAIN reqs :
    (/\ variant = "hybrid" /\ s # t
     /\ \A x \in {s, t} : /\ reqs[x].op = "save" /\ reqs[x].pc = "done"
                          /\ reqs[x].file /\ reqs[x].mongo)
    => /\ dataFile.data \in {Stringify(reqs[s].data), Stringify(reqs[t].data)}
       /\ db \in {StoreOf(reqs[s].data), StoreOf(reqs[t].data)}

\* C14: in the hybrid POST /data of a valid body, the write of data.json has
\* been attempted, and has completed or failed, when the first deleteMany of
\* the call is issued, and nothing remote has happened before it; with the
\* remote store connected the first deleteMany is issued whether the file
\* write completed or failed.
C14_FileBeforeRemote ==
  [][\A s \in DOMAIN reqs :
       LET q == reqs'[s]
       IN (/\ variant = "hybrid" /\ reqs[s].pc = "idle" /\ q.op = "save"
           /\ \A k \in Kinds : q.body[k].t = "arr")
          => /\ \E w \in WriteOutcomes :
                  LET fw == writeFileSync(dataFile, Stringify(DataToSave(q.body)), w)
                  IN dataFile' = fw.file /\ q.file = ~fw.threw
             /\ db' = db
             /\ (mongoConnected /\ uriSet) => (q.pc = "remote" /\ q.step = 1)
             /\ q.pc \in {"remote", "done"}]_vars

\* The first deleteMany of a call is awaited and the file write of the call failed.
C14_Witness ==
  \E s \in DOMAIN reqs :
    /\ variant = "hybrid" /\ reqs[s].op = "save"
    /\ reqs[s].pc = "remote" /\ reqs[s].step = 1 /\ ~reqs[s].file
    /\ dataFile.data # Stringify(reqs[s].data)

\* C15: in the hybrid variant a GET /data, GET /health or valid POST /data that
\* starts while mongoConnected is false (connect pending, failed, or no
\* MONGODB_URI) is answered in the same step, without awaiting any find,
\* deleteMany or insertMany: the store is unchanged and unread, a load is
\* served from data.json, a save reports mongo false.
C15_NoRemoteWhenNotConnected ==
  [][\A s \in DOMAIN reqs :
       LET q == reqs'[s]
       IN (/\ variant = "hybrid" /\ ~mongoConnected
           /\ reqs[s].pc = "idle" /\ q.pc # "idle")
          => /\ q.pc = "done" /\ q.pending = {} /\ q.step = 0 /\ q.snaps = {}
             /\ db' = db
             /\ q.op \in Loads => q.fellBack /\ q.seen = dataFile
             /\ q.op = "save" => ~q.mongo]_vars

\* A valid POST /data was answered while the connect was still pending: the
\* file is written, mongo is false, the store is what it was.
C15_Witness ==
  \E s \in DOMAIN reqs :
    /\ variant = "hybrid" /\ connectPending /\ ~mongoConnected
    /\ reqs[s].op = "save" /\ reqs[s].pc = "done" /\ reqs[s].status = 200
    /\ reqs[s].file /\ ~reqs[s].mongo /\ reqs[s].pre = db
    /\ db # StoreOf(reqs[s].data)

\* C16: in the hybrid variant mongoConnected, mongoError and the pending
\* connect change in one kind of step only, the settling of the startup
\* connect: from not attempted (pending, not connected) to connected, or to
\* unavailable with the error recorded, and then never again.  No request
\* step, a failed find, deleteMany or insertMany included, changes them, and
\* no connect is ever pending again.
C16_ConnectionStateOnce ==
  [][variant = "hybrid" =>
       /\ (<<mongoConnected, mongoError, connectPending>>'
             # <<mongoConnected, mongoError, connectPending>>)
          => /\ connectPending /\ ~mongoConnected /\ mongoError = "null"
             /\ ~connectPending'
             /\ mongoConnected' \/ mongoError' # "null"
             /\ reqs' = reqs /\ db' = db /\ dataFile' = dataFile
       /\ connectPending' => connectPending
       /\ uriSet' = uriSet]_vars

\* A POST /data whose remote write failed has been answered, and the server
\* is still connected.
C16_Witness ==
  \E s \in DOMAIN reqs :
    /\ variant = "hybrid" /\ mongoConnected /\ ~connectPending
    /\ reqs[s].op = "save" /\ reqs[s].pc = "done" /\ reqs[s].step >= 1 /\ ~reqs[s].mongo

\* C17: within one hybrid request each remote operation is issued at most
\* once.  A GET /data or GET /health that awaits its finds only sees finds
\* answered, each once, until it is answered itself; a find that fails ends
\* the request at once, from data.json.  A POST /data only moves forward
\* through its remote steps; a step that fails ends the request at once.  An
\* answered request takes no further step but leaving, and the store changes
\* only in a step of a POST /data that awaits a remote step.
C17_RemoteIssuedOnce ==
  [][variant = "hybrid" =>
       /\ \A s \in DOMAIN reqs :
            LET r == reqs[s]
                q == reqs'[s]
            IN /\ (r.pc = "find" /\ q # r)
                  => \/ /\ q.pc = "find" /\ ~q.fault
                        /\ q.pending \subseteq r.pending /\ q.pending # r.pending
                     \/ /\ q.pc = "done" /\ q.pending = {}
                        /\ q.fault => q.fellBack /\ q.snaps = r.snaps
               /\ (r.pc = "remote" /\ q # r)
                  => \/ q.pc = "remote" /\ q.step > r.step /\ q.step <= 6
                     \/ q.pc = "done" /\ q.step = r.step
               /\ (r.pc = "done" /\ q # r) => q = Idle /\ db' = db
       /\ db' # db => \E s \in DOMAIN reqs : reqs[s].pc = "remote" /\ reqs'[s] # reqs[s]]_vars

\* A GET /data had one find answered when another failed: it is answered
\* from data.json.
C17_Witness ==
  \E s \in DOMAIN reqs :
    /\ variant = "hybrid" /\ reqs[s].op = "data" /\ reqs[s].pc = "done"
    /\ reqs[s].fault /\ reqs[s].fellBack /\ reqs[s].snaps # {}

\* C18: the remote steps of the hybrid POST /data are, in this order,
\* deleteMany of clients, quotes, invoices (steps 1-3) and insertMany of
\* clients, quotes, invoices (steps 4-6, an empty collection's insert being
\* skipped).  A step that completes empties its collection, or appends the
\* documents of D to it, touches no other collection, and hands over to the
\* next step in the order.  A step that fails ends the call with mongo false
\* and leaves the store as the steps so far, and possibly this one, have made
\* it.  mongo is true only when the last step due has completed.
C18_RemoteStepOrder ==
  [][\A s \in DOMAIN reqs :
       LET r == reqs[s]
           q == reqs'[s]
           j == r.step
           kindAt(i) == KindSeq[IF i <= 3 THEN i ELSE i - 3]
           skipped(i) == i > 3 /\ Len(r.data[kindAt(i)].v) = 0
           completed ==
             /\ \A k \in Kinds \ {kindAt(j)} : db'[k] = db[k]
             /\ db'[kindAt(j)] = IF j <= 3 THEN <<>>
                                 ELSE db[kindAt(j)] \o DocsOf(r.data[kindAt(j)].v)
       IN (variant = "hybrid" /\ r.pc = "remote" /\ q # r)
          => /\ j \in 1..6 /\ ~skipped(j)
             /\ \/ /\ q.pc = "remote" /\ completed
                   /\ q.step \in (j + 1)..6 /\ ~skipped(q.step)
                   /\ \A i \in (j + 1)..(q.step - 1) : skipped(i)
                \/ /\ q.pc = "done" /\ q.mongo /\ completed
                   /\ \A i \in (j + 1)..6 : skipped(i)
                \/ /\ q.pc = "done" /\ ~q.mongo /\ q.step = j
                   /\ \A k \in Kinds \ {kindAt(j)} : db'[k] = db[k]]_vars

\* A POST /data whose insertMany of quotes failed: the call is answered with
\* mongo false, the clients of D are in the store, the invoices of D are not.
C18_Witness ==
  \E s \in DOMAIN reqs :
    /\ variant = "hybrid" /\ reqs[s].op = "save" /\ reqs[s].pc = "done"
    /\ ~reqs[s].mongo /\ reqs[s].step = 5
    /\ db.clients = DocsOf(reqs[s].data.clients.v)
    /\ Len(reqs[s].data.invoices.v) > 0 /\ db.invoices = <<>>

\* No two records of the sequence carry the same identifier.
UniqueIds(recs) ==
  \A i, j \in 1..Len(recs) : (i # j /\ recs[i].id # NoId) => recs[i].id # recs[j].id

\* C19: in every variant and every reachable state, no remote collection and
\* no collection of the Dataset in data.json holds two records with the same
\* identifier, whatever POST /data, POST /api/data, record-level and migrate
\* requests came before, a replaceAll of a Dataset with a duplicated
\* identifier included.
C19_UniqueIdentifiers ==
  /\ \A k \in Kinds : UniqueIds(db[k])
  /\ LET p == JsonParse(dataFile.data)
     IN (dataFile.exists /\ p.ok /\ IsDataset(p.val))
        => \A k \in Kinds : UniqueIds(p.val[k].v)

\* C20: a record-level POST that reached the store and has been answered:
\* of a record without identifier it is answered 200 and the collection has
\* one record more; of a record with an identifier the collection holds at
\* most one record with that identifier, and when none was stored before, the
\* request is answered 200 and one is stored now; for clients, quotes and
\* invoices alike.
C20_UpsertByIdentifier ==
  \A s \in DOMAIN reqs :
    LET r == reqs[s]
        k == r.kind
        i == r.rec.id
    IN (variant = "api" /\ r.op = "upsert" /\ r.pc = "done" /\ ~r.fault)
       => /\ i = NoId => r.status = 200 /\ Len(db[k]) = Len(r.pre[k]) + 1
          /\ i # NoId => /\ \A a, b \in 1..Len(db[k]) :
                              (db[k][a].id = i /\ db[k][b].id = i) => a = b
                         /\ ~HasId(r.pre[k], i) => r.status = 200 /\ HasId(db[k], i)

\* C21: a POST /api/migrate of the Dataset that the request before it
\* migrated with every record counted as success, is answered with, for every
\* kind, success 0 and errors the number of records, and leaves the three
\* collections as they were.
C21_MigrateTwice ==
  \A s \in DOMAIN reqs :
    LET r == reqs[s]
    IN (/\ variant = "api" /\ r.op = "migrate" /\ r.pc = "done"
        /\ prev.op = "migrate" /\ prev.body = r.body /\ IsDataset(r.body)
        /\ \A k \in Kinds :
             prev.counts[k] = [success |-> Len(r.body[k].v), errors |-> 0])
       => /\ r.status = 200
          /\ \A k \in Kinds :
               r.counts[k] = [success |-> 0, errors |-> Len(r.body[k].v)]
          /\ db = r.pre

\* The second migration of a Dataset with records of two kinds has been answered.
C21_Witness ==
  \E s \in DOMAIN reqs :
    /\ variant = "api" /\ reqs[s].op = "migrate" /\ reqs[s].pc = "done"
    /\ prev.op = "migrate" /\ prev.body = reqs[s].body /\ IsDataset(reqs[s].body)
    /\ \A k \in Kinds :
         prev.counts[k] = [success |-> Len(reqs[s].body[k].v), errors |-> 0]
    /\ reqs[s].counts.clients.errors = 2 /\ reqs[s].counts.invoices.errors = 1
    /\ ~reqs[s].fault

\* C22: the step in which a valid POST /data of the hybrid or the file-only
\* variant writes data.json over a content D0 leaves in the file, for every
\* later load to read, exactly the text of D or exactly D0, whether
\* writeFileSync completed or threw.
C22_AtomicFileWrite ==
  [][\A s \in DOMAIN reqs :
       (/\ variant \in {"hybrid", "file"}
        /\ reqs[s].pc = "idle" /\ reqs'[s].op = "save"
        /\ \A k \in Kinds : reqs'[s].body[k].t = "arr")
       => \/ dataFile' = dataFile
          \/ dataFile' = FileOf(Stringify(DataToSave(reqs'[s].body)))]_vars

\* C23: in the hybrid variant a GET /data that follows a POST /data of D
\* answered as successful, no write in between, is answered 200 with D (as
\* posted, or as the documents the remote store keeps of it), whatever the
\* connection state and the outcome of the remote write.
C23_ReadYourWrite ==
  \A s \in DOMAIN reqs :
    LET r == reqs[s]
    IN (variant = "hybrid" /\ r.pc = "done" /\ r.op = "data" /\ lastPut # NoPut)
       => /\ r.status = 200
          /\ r.data \in {lastPut, RemoteView(StoreOf(lastPut))}

\* A Dataset that a remote store accepts when it is written alone: every
\* record is valid and no identifier is repeated within a collection.
Acceptable(d) ==
  \A k \in Kinds : /\ UniqueIds(d[k].v)
                   /\ \A j \in 1..Len(d[k].v) : Valid(d[k].v[j])

\* C24: when two overlapping POST /data of Datasets A and B, each acceptable
\* on its own, have both been answered by a server that replaces the remote
\* store without a transaction (the hybrid and the Mongo-only variant), no
\* remote operation having failed on the network, both calls have succeeded
\* and each remote collection holds exactly the records of A or exactly the
\* records of B of its kind.
C24_ConcurrentReplace ==
  \A s, t \in DOMAIN reqs :
    (/\ variant \in {"hybrid", "mongo"} /\ s # t
     /\ variant = "hybrid" => mongoConnected
     /\ \A x \in {s, t} : /\ reqs[x].op = "save" /\ reqs[x].pc = "done"
                          /\ IsDataset(reqs[x].data) /\ Acceptable(reqs[x].data)
                          /\ reqs[x].step >= 1 /\ ~reqs[x].fault)
    => /\ \A x \in {s, t} : /\ reqs[x].status = 200
                            /\ variant = "hybrid" => reqs[x].mongo
       /\ \A k \in Kinds : db[k] \in {DocsOf(reqs[s].data[k].v), DocsOf(reqs[t].data[k].v)}

\* C25: when two record-level POST requests of the same kind, in flight
\* together, with valid records of the same non-zero identifier that was not
\* stored when the first of them began, have both been answered, no operation
\* having failed on the network, both are answered 200 and the collection
\* holds exactly one record with that identifier; for clients, quotes and
\* invoices.  (Identifier 0 is the case of C7.)
C25_ConcurrentUpsert ==
  \A s, t \in DOMAIN reqs :
    LET k == reqs[s].kind
        i == reqs[s].rec.id
    IN (/\ variant = "api" /\ s # t
        /\ \A x \in {s, t} : /\ reqs[x].op = "upsert" /\ reqs[x].pc = "done"
                             /\ reqs[x].kind = k /\ reqs[x].rec.id = i
                             /\ Valid(reqs[x].rec) /\ ~reqs[x].fault
        /\ i # 0
        /\ ~HasId(reqs[s].pre[k], i))
       => /\ reqs[s].status = 200 /\ reqs[t].status = 200
          /\ Cardinality({j \in 1..Len(db[k]) : db[k][j].id = i}) = 1

\* C26: in the hybrid variant, every remote operation being answered or timing
\* out, a GET /data, GET /health or POST /data that awaits the remote store is
\* eventually answered, and an answered request is answered once: its
\* response is not changed or sent again before the request leaves.
C26_EventuallyAnswered ==
  /\ \A s \in Slots : (reqs[s].pc \in {"find", "remote"}) ~> (reqs[s].pc = "done")
  /\ [][\A s \in Slots : reqs[s].pc = "done" => reqs'[s] \in {reqs[s], Idle}]_vars
  /\ [][\A s \in Slots : (reqs[s].pc = "idle" /\ reqs'[s] # reqs[s])
                          => reqs'[s].pc \in {"find", "remote", "done"}]_vars

\* A POST /data has been answered after a remote step of it timed out.
C26_Witness ==
  \E s \in Slots :
    /\ variant = "hybrid" /\ reqs[s].op = "save" /\ reqs[s].pc = "done"
    /\ reqs[s].fault /\ reqs[s].step >= 2 /\ reqs[s].status = 200

====
